---- MODULE Spec2Model ----
(***************************************************************************)
(* Timesheet parser front end (static/script.js): the record store kept in *)
(* localStorage under 'timesheetData', the week selector and the schedule  *)
(* table derived from it.                                                  *)
(*                                                                         *)
(* A JavaScript string is modelled as a sequence of tokens; "/" and ":"    *)
(* are tokens of their own, so that join('/') and split('/') are computed  *)
(* and not assumed.  The empty string is << >>; an absent (undefined)      *)
(* field is modelled by the empty string as well, since every use of such  *)
(* a field in the code is a truthiness test.  The one exception is the     *)
(* `dates` of a stored record: a record stored without it lacks the field. *)
(***************************************************************************)
EXTENDS Integers, Sequences, FiniteSets, TLC

VARIABLES
    blob,         \* the localStorage item 'timesheetData'
    dom,          \* the elements init() looks up, as far as the code sets them
    pending,      \* processFile calls waiting at `await fetch`
    uploads,      \* processFile calls made so far, earlier page loads included
    lastOutcome,  \* the branch the last finished processFile call ended in
    lastSave,     \* the saveTimesheetData call it made, if it made one:
                  \* the response saved and the item as it was before
    lastError     \* the `error` of the response it received, if that
                  \* carried success = false

vars == <<blob, dom, pending, uploads, lastOutcome, lastSave, lastError>>

\* ---------------------------------------------------------------- bounds
MaxDates == 2      \* longest `dates` array a parse response carries
MaxUploads == 3    \* files dropped or selected in one run

\* ---------------------------------------------------------------- strings
EmptyStr == << >>
Truthy(s) == s # EmptyStr

D1 == <<"01", "/", "01", "/", "2024">>
D2 == <<"15", "/", "06", "/", "2024">>
DateStrings == {D1, D2}

\* Number(token) for the tokens that occur in date and time strings
TokenNumber(t) ==
    CASE t = "00" -> 0
      [] t = "01" -> 1
      [] t = "06" -> 6
      [] t = "9" -> 9
      [] t = "15" -> 15
      [] t = "17" -> 17
      [] t = "30" -> 30
      [] t = "2024" -> 2024

RECURSIVE JoinFrom(_, _)
JoinFrom(arr, i) ==
    IF i > Len(arr) THEN EmptyStr
    ELSE IF i = Len(arr) THEN arr[i]
    ELSE arr[i] \o <<"/">> \o JoinFrom(arr, i + 1)

\* Array.prototype.join('/')
Join(arr) == JoinFrom(arr, 1)

RECURSIVE SplitFrom(_, _, _, _)
SplitFrom(s, sep, i, cur) ==
    IF i > Len(s) THEN <<cur>>
    ELSE IF s[i] = sep THEN <<cur>> \o SplitFrom(s, sep, i + 1, EmptyStr)
    ELSE SplitFrom(s, sep, i + 1, Append(cur, s[i]))

\* String.prototype.split(sep)
Split(s, sep) == SplitFrom(s, sep, 1, EmptyStr)

\* variant: the filter is left out
KeepAll(arr) == arr

\* Array.prototype.filter(d => d)
RECURSIVE FilterTruthy(_)
FilterTruthy(arr) ==
    IF arr = << >> THEN << >>
    ELSE IF Truthy(Head(arr)) THEN <<Head(arr)>> \o FilterTruthy(Tail(arr))
    ELSE FilterTruthy(Tail(arr))

Range(f) == {f[i] : i \in DOMAIN f}

\* ---------------------------------------------------------------- records
daysOrder == <<"Monday", "Tuesday", "Wednesday", "Thursday", "Friday">>

OffDay == [date |-> EmptyStr, start |-> EmptyStr, end |-> EmptyStr,
           area |-> EmptyStr, note |-> EmptyStr]
WorkDay == [date |-> D1, start |-> <<"9", ":", "00">>,
            end |-> <<"17", ":", "30">>,
            area |-> <<"Downtown">>, note |-> <<"Training">>]

\* the `days` object of a parse response: one DaySlot per weekday
DaysChoices ==
    {[d \in Range(daysOrder) |-> IF d = "Monday" THEN WorkDay ELSE OffDay]}

WeekEndings == {D1}

DatesArrays ==
    UNION {[1..n -> DateStrings \cup {EmptyStr}] : n \in 0..MaxDates}

\* the body of a /parse response with success = true
ParseData ==
    [week_ending : WeekEndings \cup {EmptyStr},
     dates : DatesArrays,
     days : DaysChoices]

\* the values the fields of a DaySlot take: each time absent, early or late,
\* so that a slot can lack either time and can end before it starts
Times == {EmptyStr, <<"9", ":", "00">>, <<"17", ":", "30">>}
DaySlots ==
    [date : {D1}, start : Times, end : Times,
     area : {EmptyStr, <<"Downtown">>}, note : {EmptyStr, <<"Training">>}]

\* `days` objects with any DaySlot on Monday, a worked or a free Tuesday
WeekChoices ==
    {[d \in Range(daysOrder) |->
        IF d = "Monday" THEN monday
        ELSE IF d = "Tuesday" THEN tuesday ELSE OffDay] :
     monday \in DaySlots, tuesday \in {OffDay, WorkDay}}

\* /parse responses of an earlier page load
StoredWeeks ==
    [week_ending : {EmptyStr}, dates : {<<EmptyStr, D2>>}, days : WeekChoices]

\* a record as saveTimesheetData reads it back when it was stored without
\* a `dates` property (existingData.dates is undefined)
LegacyWeeks == [week_ending : WeekEndings, days : DaysChoices]

\* ---------------------------------------------------------------- store
\* The value JSON.parse returns for the persisted text: `kind` is the
\* JavaScript type, `entries` its own enumerable properties in
\* Object.entries order (insertion order: no key here is an array index).
JsValue(kind, entries) == [kind |-> kind, entries |-> entries]

\* localStorage item 'timesheetData': absent, text that is not JSON, or the
\* JSON text of null, of a number, of [] or of an object of week records
Blob(kind, entries) == [kind |-> kind, entries |-> entries]
CorruptKinds == {"garbage", "null", "number", "array"}

getStoredData(b) ==
    CASE b.kind = "missing" -> JsValue("object", << >>)
      [] b.kind = "garbage" -> JsValue("object", << >>)
      [] OTHER -> JsValue(b.kind, b.entries)

\* JSON.stringify(stored): an array serialises its elements only
Stringify(v) ==
    IF v.kind = "array" THEN Blob("array", << >>)
    ELSE Blob(v.kind, v.entries)

KeysOf(entries) == {entries[i].key : i \in DOMAIN entries}
HasKey(entries, key) == \E i \in DOMAIN entries : entries[i].key = key
\* variant: the first record of the store is returned
LookupFirst(entries, key) == entries[1].data

\* stored[key]
Lookup(entries, key) ==
    entries[CHOOSE i \in DOMAIN entries : entries[i].key = key].data

\* variant: the key joins the filtered dates
StoreKeyFiltered(data) ==
    IF Truthy(data.week_ending) THEN data.week_ending
    ELSE Join(FilterTruthy(data.dates))

\* const key = data.week_ending || data.dates.join('/')
StoreKey(data) ==
    IF Truthy(data.week_ending) THEN data.week_ending ELSE Join(data.dates)

\* existingData.dates || []
existingDatesOf(existingData) ==
    IF "dates" \in DOMAIN existingData THEN existingData.dates ELSE << >>

\* variant: only the first date of datesToCheck is looked up
FirstIncluded(datesToCheck, existingDates) ==
    /\ datesToCheck # << >>
    /\ \E j \in DOMAIN existingDates : existingDates[j] = datesToCheck[1]

\* datesToCheck.some(date => existingDates.includes(date))
SomeIncluded(datesToCheck, existingDates) ==
    \E i \in DOMAIN datesToCheck :
        \E j \in DOMAIN existingDates : existingDates[j] = datesToCheck[i]

\* variant: the loop stops after its first delete
RECURSIVE EvictStopAtFirst(_, _, _)
EvictStopAtFirst(entries, key, datesToCheck) ==
    IF entries = << >> THEN << >>
    ELSE IF SomeIncluded(datesToCheck, existingDatesOf(Head(entries).data))
            /\ Head(entries).key # key
         THEN Tail(entries)
         ELSE <<Head(entries)>> \o EvictStopAtFirst(Tail(entries), key, datesToCheck)

\* variant: || in place of && in the loop's condition
RECURSIVE EvictAllOthers(_, _, _)
EvictAllOthers(entries, key, datesToCheck) ==
    IF entries = << >> THEN << >>
    ELSE IF SomeIncluded(datesToCheck, existingDatesOf(Head(entries).data))
            \/ Head(entries).key # key
         THEN EvictAllOthers(Tail(entries), key, datesToCheck)
         ELSE <<Head(entries)>> \o EvictAllOthers(Tail(entries), key, datesToCheck)

\* variant: the loop's condition lacks `existingKey !== key`
RECURSIVE EvictIgnoringKey(_, _, _)
EvictIgnoringKey(entries, key, datesToCheck) ==
    IF entries = << >> THEN << >>
    ELSE IF SomeIncluded(datesToCheck, existingDatesOf(Head(entries).data))
         THEN EvictIgnoringKey(Tail(entries), key, datesToCheck)
         ELSE <<Head(entries)>> \o EvictIgnoringKey(Tail(entries), key, datesToCheck)

\* the for loop over Object.entries(stored): delete stored[existingKey].
\* Object.entries is a snapshot, so the deletes do not disturb the loop.
RECURSIVE EvictOverlapping(_, _, _)
EvictOverlapping(entries, key, datesToCheck) ==
    IF entries = << >> THEN << >>
    ELSE IF SomeIncluded(datesToCheck, existingDatesOf(Head(entries).data))
            /\ Head(entries).key # key
         THEN EvictOverlapping(Tail(entries), key, datesToCheck)
         ELSE <<Head(entries)>> \o EvictOverlapping(Tail(entries), key, datesToCheck)

\* stored[key] = data: an existing property keeps its place, a new one is
\* added last
SetKey(entries, key, data) ==
    IF HasKey(entries, key)
    THEN [i \in DOMAIN entries |->
            IF entries[i].key = key THEN [key |-> key, data |-> data]
            ELSE entries[i]]
    ELSE Append(entries, [key |-> key, data |-> data])

\* variant: the item is removed before it is written
setItemClearing(b, text, writeOk) ==
    IF writeOk THEN [threw |-> FALSE, error |-> EmptyStr, blob |-> text]
    ELSE [threw |-> TRUE, error |-> <<"QuotaExceededError">>,
          blob |-> Blob("missing", << >>)]

\* localStorage.setItem: stores the text, or throws and stores nothing
setItem(b, text, writeOk) ==
    IF writeOk THEN [threw |-> FALSE, error |-> EmptyStr, blob |-> text]
    ELSE [threw |-> TRUE, error |-> <<"QuotaExceededError">>, blob |-> b]

saveTimesheetData(b, data, writeOk) ==
    LET stored == getStoredData(b)
        key == StoreKey(data)
        datesToCheck == FilterTruthy(data.dates)
    IN  CASE stored.kind = "null" ->
               \* Object.entries(null) throws
               [threw |-> TRUE, error |-> <<"TypeError">>, blob |-> b]
          [] stored.kind = "number" ->
               \* class code is strict: stored[key] = data on a primitive throws
               [threw |-> TRUE, error |-> <<"TypeError">>, blob |-> b]
          [] OTHER ->
               LET kept == EvictOverlapping(stored.entries, key, datesToCheck)
                   updated == SetKey(kept, key, data)
               IN  setItem(b, Stringify(JsValue(stored.kind, updated)), writeOk)

\* the earlier version of the script (part_000): the first loop,
\* keysToRemove.push(existingKey) for every entry that shares a date
RECURSIVE keysToRemove(_, _)
keysToRemove(entries, datesToCheck) ==
    IF entries = << >> THEN << >>
    ELSE IF SomeIncluded(datesToCheck, existingDatesOf(Head(entries).data))
         THEN <<Head(entries).key>> \o keysToRemove(Tail(entries), datesToCheck)
         ELSE keysToRemove(Tail(entries), datesToCheck)

\* variant: forEach deletes every collected key
RECURSIVE RemoveCollected(_, _, _)
RemoveCollected(entries, oldKeys, key) ==
    IF entries = << >> THEN << >>
    ELSE IF Head(entries).key \in Range(oldKeys)
         THEN RemoveCollected(Tail(entries), oldKeys, key)
         ELSE <<Head(entries)>> \o RemoveCollected(Tail(entries), oldKeys, key)

\* keysToRemove.forEach(oldKey => { if (oldKey !== key) delete stored[oldKey] })
RECURSIVE RemoveOldKeys(_, _, _)
RemoveOldKeys(entries, oldKeys, key) ==
    IF entries = << >> THEN << >>
    ELSE IF Head(entries).key \in Range(oldKeys) /\ Head(entries).key # key
         THEN RemoveOldKeys(Tail(entries), oldKeys, key)
         ELSE <<Head(entries)>> \o RemoveOldKeys(Tail(entries), oldKeys, key)

\* saveTimesheetData of part_000
saveTimesheetDataOld(b, data, writeOk) ==
    LET stored == getStoredData(b)
        key == StoreKey(data)
        datesToCheck == FilterTruthy(data.dates)
    IN  CASE stored.kind = "null" ->
               [threw |-> TRUE, error |-> <<"TypeError">>, blob |-> b]
          [] stored.kind = "number" ->
               [threw |-> TRUE, error |-> <<"TypeError">>, blob |-> b]
          [] OTHER ->
               LET oldKeys == keysToRemove(stored.entries, datesToCheck)
                   kept == RemoveOldKeys(stored.entries, oldKeys, key)
                   updated == SetKey(kept, key, data)
               IN  setItem(b, Stringify(JsValue(stored.kind, updated)), writeOk)

\* ---------------------------------------------------------------- week list
NaN == [nan |-> TRUE, v |-> 0]
Num(n) == [nan |-> FALSE, v |-> n]

\* Number(str) of one component of a split string; undefined gives NaN
ToNumber(parts, i) ==
    IF i > Len(parts) THEN NaN
    ELSE IF parts[i] = EmptyStr THEN Num(0)
    ELSE IF Len(parts[i]) = 1 THEN Num(TokenNumber(parts[i][1]))
    ELSE NaN

\* day number of year/monthIndex/day as the Date constructor normalises
\* them: months outside 0..11 carry into the year, days outside the month
\* carry into the neighbouring months
MakeDay(year, monthIndex, day) ==
    LET ym == year + (monthIndex \div 12)
        m == (monthIndex % 12) + 1
        y == IF m <= 2 THEN ym - 1 ELSE ym
        mp == (m + 9) % 12
    IN  365 * y + (y \div 4) - (y \div 100) + (y \div 400)
        + ((153 * mp + 2) \div 5) + (day - 1)

\* new Date(year, monthIndex, day): the time value in days, NaN for an
\* Invalid Date; years 0..99 mean 1900..1999
NewDate(year, monthIndex, day) ==
    IF year.nan \/ monthIndex.nan \/ day.nan THEN NaN
    ELSE Num(MakeDay(IF year.v >= 0 /\ year.v <= 99 THEN 1900 + year.v
                     ELSE year.v,
                     monthIndex.v, day.v))

\* new Date(key.split('/')[2], key.split('/')[1]-1, key.split('/')[0])
KeyDate(key) ==
    LET parts == Split(key, "/")
        month == ToNumber(parts, 2)
    IN  NewDate(ToNumber(parts, 3),
                IF month.nan THEN NaN ELSE Num(month.v - 1),
                ToNumber(parts, 1))

\* the comparator handed to weeks.sort, applied to the two Date values:
\* dateB - dateA; sort reads a NaN result as 0
Comparator(dateA, dateB) ==
    IF dateA.nan \/ dateB.nan THEN 0 ELSE dateB.v - dateA.v

\* a consistent comparator in the sense of Array.prototype.sort
\* (`date` maps each key to its Date value)
Consistent(keys, date) ==
    \A a \in keys : \A b \in keys : \A c \in keys :
        (Comparator(date[a], date[b]) = 0 /\ Comparator(date[b], date[c]) = 0)
            => Comparator(date[a], date[c]) = 0

RECURSIVE InsertSorted(_, _, _)
InsertSorted(sorted, key, date) ==
    IF sorted = << >> THEN <<key>>
    ELSE IF Comparator(date[Head(sorted)], date[key]) <= 0
         THEN <<Head(sorted)>> \o InsertSorted(Tail(sorted), key, date)
         ELSE <<key>> \o sorted

RECURSIVE StableSort(_, _)
StableSort(keys, date) ==
    IF keys = << >> THEN << >>
    ELSE InsertSorted(StableSort(SubSeq(keys, 1, Len(keys) - 1), date),
                      keys[Len(keys)], date)

Reorderings(keys) ==
    {[i \in DOMAIN keys |-> keys[p[i]]] : p \in Permutations(DOMAIN keys)}

\* weeks.sort(...): the stable sort under a consistent comparator; with an
\* inconsistent one the order is implementation-defined
SortResults(keys) ==
    LET date == [k \in Range(keys) |-> KeyDate(k)]
    IN  IF Consistent(Range(keys), date) THEN {StableSort(keys, date)}
        ELSE Reorderings(keys)

EntryKeys(entries) == [i \in DOMAIN entries |-> entries[i].key]

\* ---------------------------------------------------------------- week view
\* _timeToHours, in minutes: hours + minutes / 60 scaled by 60
timeToHours(timeStr) ==
    LET parts == Split(timeStr, ":")
    IN  60 * ToNumber(parts, 1).v + ToNumber(parts, 2).v

\* variant: a slot with an end only shows the end
timeTextEnd(day) ==
    IF Truthy(day.start) /\ Truthy(day.end)
    THEN day.start \o <<" - ">> \o day.end
    ELSE IF Truthy(day.start) THEN day.start
    ELSE IF Truthy(day.end) THEN day.end
    ELSE <<"Off">>

\* timeText after the if / else if on day.start and day.end
timeText(day) ==
    IF Truthy(day.start) /\ Truthy(day.end)
    THEN day.start \o <<" - ">> \o day.end
    ELSE IF Truthy(day.start) THEN day.start
    ELSE <<"Off">>

\* variant: area and note are joined without the filter on notes
notesTextUnfiltered(day) == day.area \o <<", ">> \o day.note

\* notes.join(', ') of the area and note that are present
notesText(day) ==
    LET notes == (IF Truthy(day.area) THEN <<day.area>> ELSE << >>)
                 \o (IF Truthy(day.note) THEN <<day.note>> ELSE << >>)
    IN  IF Len(notes) = 2 THEN notes[1] \o <<", ">> \o notes[2]
        ELSE IF Len(notes) = 1 THEN notes[1]
        ELSE EmptyStr

\* variant: a day that ends before it starts adds nothing
dayHoursClamped(day) ==
    IF Truthy(day.start) /\ Truthy(day.end)
       /\ timeToHours(day.end) >= timeToHours(day.start)
    THEN timeToHours(day.end) - timeToHours(day.start)
    ELSE 0

\* what one day adds to totalHours, in minutes
dayHours(day) ==
    IF Truthy(day.start) /\ Truthy(day.end)
    THEN timeToHours(day.end) - timeToHours(day.start)
    ELSE 0

RECURSIVE totalHours(_, _)
totalHours(days, i) ==
    IF i > Len(daysOrder) THEN 0
    ELSE dayHours(days[daysOrder[i]]) + totalHours(days, i + 1)

scheduleRows(weekData) ==
    [i \in DOMAIN daysOrder |->
        LET day == weekData.days[daysOrder[i]]
        IN  [dayName |-> daysOrder[i], date |-> day.date,
             timeText |-> timeText(day), notesText |-> notesText(day)]]

\* weekSelect.value: the value of the selected option (after innerHTML is
\* rebuilt the first option is the selected one)
selectedValue(d) ==
    IF d.options = << >> THEN EmptyStr ELSE d.options[d.selectedIndex]

\* weekSummary holds totalHours in minutes, scheduleBody the cells of the
\* rows appended
displaySelectedWeek(d, b) ==
    LET selectedKey == selectedValue(d)
        stored == getStoredData(b)
        hidden == [threw |-> FALSE, error |-> EmptyStr,
                   dom |-> [d EXCEPT !.resultsSection = "none"]]
    IN  IF ~Truthy(selectedKey) THEN hidden
        ELSE IF stored.kind = "null"
        THEN \* stored[selectedKey] on null throws
             [threw |-> TRUE, error |-> <<"TypeError">>, dom |-> d]
        ELSE IF ~HasKey(stored.entries, selectedKey) THEN hidden
        ELSE LET weekData == Lookup(stored.entries, selectedKey)
             IN  [threw |-> FALSE, error |-> EmptyStr,
                  dom |-> [d EXCEPT !.resultsSection = "block",
                                    !.scheduleBody = scheduleRows(weekData),
                                    !.weekSummary = totalHours(weekData.days, 1)]]

\* refreshWeekList with `order` the outcome of weeks.sort
refreshWeekList(d, b, order) ==
    LET stored == getStoredData(b)
    IN  IF stored.kind = "null"
        THEN \* Object.entries(null) throws
             [threw |-> TRUE, error |-> <<"TypeError">>, dom |-> d]
        ELSE IF stored.entries = << >>
        THEN [threw |-> FALSE, error |-> EmptyStr,
              dom |-> [d EXCEPT !.options = <<EmptyStr>>,
                                !.selectedIndex = 1,
                                !.weekSection = "none",
                                !.resultsSection = "none"]]
        ELSE displaySelectedWeek([d EXCEPT !.weekSection = "block",
                                           !.options = order,
                                           !.selectedIndex = 1], b)

\* the orders weeks.sort can leave the entries of the persisted store in
SortOrders(b) ==
    LET stored == getStoredData(b)
    IN  IF stored.kind = "null" THEN {<< >>}
        ELSE SortResults(EntryKeys(stored.entries))

showStatus(d, message, type) ==
    [d EXCEPT !.uploadStatus = [message |-> message, type |-> type]]

\* ---------------------------------------------------------------- handlers
NetworkErrors == {<<"Failed to fetch">>}
ParseErrors == {EmptyStr, <<"No schedule found">>}

UploadError(message) == <<"Error uploading file: ">> \o message

\* no saveTimesheetData call was made
NoSave == [data |-> [week_ending |-> EmptyStr, dates |-> << >>,
                     days |-> << >>],
           before |-> Blob("missing", << >>)]

\* processFile with a file whose type does not include 'pdf'
ProcessFileNotPdf ==
    /\ dom' = showStatus(dom, <<"Please select a PDF file.">>, "error")
    /\ uploads < MaxUploads
    /\ uploads' = uploads + 1
    /\ lastOutcome' = "notPdf"
    /\ lastSave' = NoSave
    /\ lastError' = EmptyStr
    /\ UNCHANGED <<blob, pending>>

\* processFile up to `await fetch`
ProcessFileStart ==
    /\ uploads < MaxUploads
    /\ uploads' = uploads + 1
    /\ dom' = showStatus(dom, <<"Processing PDF...">>, "loading")
    /\ pending' = pending + 1
    /\ UNCHANGED <<blob, lastOutcome, lastSave, lastError>>

\* fetch or response.json() rejects: the catch block
ProcessFileFetchFailed ==
    /\ pending > 0
    /\ \E message \in NetworkErrors :
          dom' = showStatus(dom, UploadError(message), "error")
    /\ pending' = pending - 1
    /\ lastOutcome' = "transportError"
    /\ lastSave' = NoSave
    /\ lastError' = EmptyStr
    /\ UNCHANGED <<blob, uploads>>

\* variant: the fixed text is shown whatever data.error holds
ProcessFileParseFailureFixedText ==
    /\ pending > 0
    /\ \E error \in ParseErrors :
          /\ dom' = showStatus(dom, <<"Failed to process PDF">>, "error")
          /\ lastError' = error
    /\ pending' = pending - 1
    /\ lastOutcome' = "parseFailure"
    /\ lastSave' = NoSave
    /\ UNCHANGED <<blob, uploads>>

\* the response carries success = false
ProcessFileParseFailure ==
    /\ pending > 0
    /\ \E error \in ParseErrors :
          /\ dom' = showStatus(dom,
                               IF Truthy(error) THEN error
                               ELSE <<"Failed to process PDF">>,
                               "error")
          /\ lastError' = error
    /\ pending' = pending - 1
    /\ lastOutcome' = "parseFailure"
    /\ lastSave' = NoSave
    /\ UNCHANGED <<blob, uploads>>

\* variant: the save works on the store as the previous save loaded it
ProcessFileSuccessStale ==
    /\ pending > 0
    /\ pending' = pending - 1
    /\ UNCHANGED uploads
    /\ lastError' = EmptyStr
    /\ \E data \in ParseData, writeOk \in BOOLEAN :
          LET shown == showStatus(dom, <<"PDF processed successfully!">>,
                                  "success")
              saved == saveTimesheetData(lastSave.before, data, writeOk)
          IN  /\ blob' = saved.blob
              /\ lastSave' = [data |-> data, before |-> blob]
              /\ IF saved.threw
                 THEN /\ dom' = showStatus(shown, UploadError(saved.error),
                                           "error")
                      /\ lastOutcome' =
                            IF saved.error = <<"QuotaExceededError">>
                            THEN "writeFailed" ELSE "saveThrew"
                 ELSE /\ \E order \in SortOrders(saved.blob) :
                            LET listed == refreshWeekList(shown, saved.blob,
                                                          order)
                            IN  dom' = IF listed.threw
                                       THEN showStatus(listed.dom,
                                                UploadError(listed.error),
                                                "error")
                                       ELSE listed.dom
                      /\ lastOutcome' = "saved"

\* variant: the week list is not refreshed after the save
ProcessFileSuccessNoRefresh ==
    /\ pending > 0
    /\ pending' = pending - 1
    /\ UNCHANGED uploads
    /\ lastError' = EmptyStr
    /\ \E data \in ParseData, writeOk \in BOOLEAN :
          LET shown == showStatus(dom, <<"PDF processed successfully!">>,
                                  "success")
              saved == saveTimesheetData(blob, data, writeOk)
          IN  /\ blob' = saved.blob
              /\ lastSave' = [data |-> data, before |-> blob]
              /\ IF saved.threw
                 THEN /\ dom' = showStatus(shown, UploadError(saved.error),
                                           "error")
                      /\ lastOutcome' =
                            IF saved.error = <<"QuotaExceededError">>
                            THEN "writeFailed" ELSE "saveThrew"
                 ELSE /\ dom' = shown
                      /\ lastOutcome' = "saved"

\* the response carries success = true: save, then refresh the week list;
\* whatever either throws lands in the catch block
ProcessFileSuccess ==
    /\ pending > 0
    /\ pending' = pending - 1
    /\ UNCHANGED uploads
    /\ lastError' = EmptyStr
    /\ \E data \in ParseData, writeOk \in BOOLEAN :
          LET shown == showStatus(dom, <<"PDF processed successfully!">>,
                                  "success")
              saved == saveTimesheetData(blob, data, writeOk)
          IN  /\ blob' = saved.blob
              /\ lastSave' = [data |-> data, before |-> blob]
              /\ IF saved.threw
                 THEN /\ dom' = showStatus(shown, UploadError(saved.error),
                                           "error")
                      /\ lastOutcome' =
                            IF saved.error = <<"QuotaExceededError">>
                            THEN "writeFailed" ELSE "saveThrew"
                 ELSE /\ \E order \in SortOrders(saved.blob) :
                            LET listed == refreshWeekList(shown, saved.blob,
                                                          order)
                            IN  dom' = IF listed.threw
                                       THEN showStatus(listed.dom,
                                                UploadError(listed.error),
                                                "error")
                                       ELSE listed.dom
                      /\ lastOutcome' = "saved"

\* click on refreshBtn
RefreshClick ==
    /\ \E order \in SortOrders(blob) :
          dom' = refreshWeekList(dom, blob, order).dom
    /\ UNCHANGED <<blob, pending, uploads, lastOutcome, lastSave, lastError>>

\* change on weekSelect: the user picks an option
WeekSelectChange ==
    /\ \E i \in DOMAIN dom.options :
          dom' = displaySelectedWeek([dom EXCEPT !.selectedIndex = i],
                                     blob).dom
    /\ UNCHANGED <<blob, pending, uploads, lastOutcome, lastSave, lastError>>

\* the page before the constructor runs; index.html is not part of the
\* sources, the sections are taken to start hidden and the table empty
InitialDom ==
    [options |-> << >>, selectedIndex |-> 1, weekSection |-> "none",
     resultsSection |-> "none", scheduleBody |-> << >>, weekSummary |-> 0,
     uploadStatus |-> [message |-> EmptyStr, type |-> ""]]

\* constructor: init(), then loadStoredData() = refreshWeekList(), on a
\* page loaded after `made` processFile calls
Loaded(b, made) ==
    /\ blob = b
    /\ \E order \in SortOrders(b) :
          dom = refreshWeekList(InitialDom, b, order).dom
    /\ pending = 0
    /\ uploads = made
    /\ lastOutcome = "none"
    /\ lastSave = NoSave
    /\ lastError = EmptyStr

Constructed(b) == Loaded(b, 0)

Init == Constructed(Blob("missing", << >>))

Next ==
    \/ ProcessFileNotPdf
    \/ ProcessFileStart
    \/ ProcessFileFetchFailed
    \/ ProcessFileParseFailure
    \/ ProcessFileSuccess
    \/ RefreshClick
    \/ WeekSelectChange

Spec == Init /\ [][Next]_vars

\* the page opened over whatever a previous session or another script left
\* in localStorage
InitCorrupt ==
    \E kind \in CorruptKinds \cup {"missing"} : Constructed(Blob(kind, << >>))

SpecCorrupt == InitCorrupt /\ [][Next]_vars

\* the items earlier page loads can have left: nothing, one week, or one
\* week after a record that was stored without `dates`
EarlierBlobs ==
    {Blob("missing", << >>)}
    \cup {saveTimesheetData(Blob("missing", << >>), week, TRUE).blob :
            week \in StoredWeeks}
    \cup {saveTimesheetData(
                Blob("object", <<[key |-> legacy.week_ending, data |-> legacy]>>),
                week, TRUE).blob :
            legacy \in LegacyWeeks, week \in StoredWeeks}

\* the page reloaded over such an item, one upload of the run left
InitView == \E b \in EarlierBlobs : Loaded(b, MaxUploads - 1)

SpecView == InitView /\ [][Next]_vars

\* ---------------------------------------------------------------- properties
Stored == getStoredData(blob).entries
Before == getStoredData(lastSave.before).entries
Saved == lastOutcome = "saved"
NewKey == IF Truthy(lastSave.data.week_ending) THEN lastSave.data.week_ending
          ELSE Join(lastSave.data.dates)

\* two `dates` arrays share a calendar date (empty placeholders are none)
SharesDate(datesA, datesB) ==
    (Range(datesA) \cap Range(datesB)) \ {EmptyStr} # {}

\* the entries of the store before the last save that the save's record
\* conflicts with: another key, a shared date
Conflicting ==
    {i \in DOMAIN Before :
        /\ Before[i].key # NewKey
        /\ SharesDate(lastSave.data.dates, Before[i].data.dates)}

RECURSIVE Without(_, _)
Without(entries, drop) ==
    IF entries = << >> THEN << >>
    ELSE IF Head(entries).key \in drop THEN Without(Tail(entries), drop)
    ELSE <<Head(entries)>> \o Without(Tail(entries), drop)

\* C1: from an empty store, after any sequence of successful saves no
\* non-empty date is in the `dates` of two different stored records.
C1_OneRecordPerDate ==
    \A i \in DOMAIN Stored : \A j \in DOMAIN Stored :
        i # j => ~SharesDate(Stored[i].data.dates, Stored[j].data.dates)

\* C1 witness: a save evicted a record and left another one beside the new.
C1_Witness ==
    /\ Saved
    /\ Conflicting # {}
    /\ Len(Stored) >= 2
    /\ \E i \in DOMAIN Stored : \E d \in DateStrings :
          Stored[i].key # NewKey /\ d \in Range(Stored[i].data.dates)

\* C2: a stored record A and an inserted record B with another key that
\* share a non-empty date: after the insert A's key is absent and B's key
\* maps to exactly B.
C2_EvictionNotMerge ==
    Saved =>
        /\ \A i \in Conflicting : ~HasKey(Stored, Before[i].key)
        /\ Conflicting # {} =>
              HasKey(Stored, NewKey) /\ Lookup(Stored, NewKey) = lastSave.data

\* C2 witness: the last save evicted two records at once.
C2_Witness == Saved /\ Cardinality(Conflicting) = 2

\* C3: an insert leaves every stored record untouched whose key differs
\* from the new key and whose dates share no non-empty date with the
\* incoming ones; the store then holds both.
C3_DisjointKept ==
    Saved =>
        \A i \in DOMAIN Before :
            (Before[i].key # NewKey /\ i \notin Conflicting) =>
                /\ HasKey(Stored, Before[i].key)
                /\ Lookup(Stored, Before[i].key) = Before[i].data
                /\ HasKey(Stored, NewKey)
                /\ Lookup(Stored, NewKey) = lastSave.data

\* C3 witness: a record with non-empty dates was kept beside a new record
\* with non-empty dates of its own.
C3_Witness ==
    /\ Saved
    /\ FilterTruthy(lastSave.data.dates) # << >>
    /\ \E i \in DOMAIN Before :
          /\ Before[i].key # NewKey
          /\ i \notin Conflicting
          /\ FilterTruthy(Before[i].data.dates) # << >>

\* C4 as claimed: inserting a record whose key is already in the store
\* overwrites that entry and leaves the number of entries unchanged.
C4_SizeUnchanged ==
    (Saved /\ HasKey(Before, NewKey)) =>
        /\ Lookup(Stored, NewKey) = lastSave.data
        /\ Len(Stored) = Len(Before)

\* C4 amended: inserting a record whose key is already in the store
\* overwrites that entry in place (the entries that stay keep their order)
\* and removes exactly the entries under other keys that share a non-empty
\* date with the new record; the number of entries is unchanged when there
\* is none of those.
C4_OverwriteInPlace ==
    (Saved /\ HasKey(Before, NewKey)) =>
        /\ Lookup(Stored, NewKey) = lastSave.data
        /\ EntryKeys(Stored) =
              EntryKeys(Without(Before, {Before[i].key : i \in Conflicting}))
        /\ Len(Stored) = Len(Before) - Cardinality(Conflicting)

\* C4 witness: a record was replaced by a different one under its key,
\* with another record before it and the size unchanged.
C4_Witness ==
    /\ Saved
    /\ HasKey(Before, NewKey)
    /\ Lookup(Before, NewKey) # lastSave.data
    /\ Len(Before) >= 2
    /\ Len(Stored) = Len(Before)

\* C5 as claimed: the record is stored under week_ending when present,
\* else under the "/"-join of the non-empty entries of `dates`.
C5_KeyJoinsNonEmptyDates ==
    Saved =>
        LET key == IF Truthy(lastSave.data.week_ending)
                   THEN lastSave.data.week_ending
                   ELSE Join(FilterTruthy(lastSave.data.dates))
        IN  HasKey(Stored, key) /\ Lookup(Stored, key) = lastSave.data

\* C5 amended: the record is stored under week_ending when that is present
\* and non-empty, else under the "/"-join of all entries of `dates`, empty
\* placeholders included (each leaves its separator in the key).
C5_KeyJoinsAllDates ==
    Saved =>
        /\ HasKey(Stored, NewKey)
        /\ Lookup(Stored, NewKey) = lastSave.data
        /\ \A i \in DOMAIN Stored :
              Stored[i].data = lastSave.data => Stored[i].key = NewKey

\* C5 witness: a record without week_ending whose dates hold a placeholder
\* and a date was saved.
C5_Witness ==
    /\ Saved
    /\ ~Truthy(lastSave.data.week_ending)
    /\ EmptyStr \in Range(lastSave.data.dates)
    /\ Range(lastSave.data.dates) \cap DateStrings # {}

\* C6: when localStorage.setItem fails during an insert the persisted store
\* stays exactly as it was: a load returns the pre-insert store, no
\* eviction applied, the new record absent.
C6_FailedWriteKeepsStore ==
    lastOutcome = "writeFailed" =>
        /\ blob = lastSave.before
        /\ getStoredData(blob) = getStoredData(lastSave.before)

\* C6 witness: the write failed for a record that conflicts with a stored
\* one and is not in the store.
C6_Witness ==
    /\ lastOutcome = "writeFailed"
    /\ Conflicting # {}
    /\ ~HasKey(Stored, NewKey)

\* what a status message reports: its class and its fixed text, without
\* the detail appended to it
ReportedKind(status) ==
    [type |-> status.type,
     label |-> IF status.message = EmptyStr THEN "" ELSE Head(status.message)]

TransportKinds ==
    {ReportedKind(showStatus(dom, UploadError(m), "error").uploadStatus) :
        m \in NetworkErrors}

ParseFailureKinds ==
    {ReportedKind([message |-> m, type |-> "error"]) :
        m \in (ParseErrors \ {EmptyStr}) \cup {<<"Failed to process PDF">>}}

\* C7: a persistence write failure during an ingest is reported as an error
\* kind distinct from the transport-error and parse-failure kinds.
C7_WriteFailureDistinctKind ==
    lastOutcome = "writeFailed" =>
        ReportedKind(dom.uploadStatus) \notin TransportKinds \cup ParseFailureKinds

\* C8: whatever the persisted item holds (nothing, text that is not JSON,
\* JSON that is no key->record object), the load an insert starts with
\* returns a store, an empty one when the item is no valid store, and the
\* insert and persist go through and leave the inserted record in the store.
C8_CorruptLoadRecovers ==
    lastOutcome \in {"saved", "saveThrew"} =>
        /\ getStoredData(lastSave.before).kind = "object"
        /\ lastSave.before.kind # "object" =>
              getStoredData(lastSave.before).entries = << >>
        /\ lastOutcome = "saved"
        /\ getStoredData(blob).kind = "object"
        /\ HasKey(Stored, NewKey)
        /\ Lookup(Stored, NewKey) = lastSave.data

\* the calendar date a key encodes: its first three non-empty components
\* read as day, month, year; none when the key holds no date
EncodedDate(key) ==
    LET parts == FilterTruthy(Split(key, "/"))
    IN  IF Len(parts) < 3 THEN NaN
        ELSE Num(MakeDay(TokenNumber(parts[3][1]),
                         TokenNumber(parts[2][1]) - 1,
                         TokenNumber(parts[1][1])))

\* C9: the option list holds every key of the store exactly once, in
\* descending order of the calendar dates the keys encode, and the order is
\* the same whatever order the entries were inserted in.
C9_ListSortedByDate ==
    LET keys == EntryKeys(Stored)
        listed == dom.options
    IN  (keys # << >> /\ \A k \in Range(keys) : ~EncodedDate(k).nan) =>
            /\ Len(listed) = Len(keys)
            /\ Range(listed) = Range(keys)
            /\ \A i \in DOMAIN listed : \A j \in DOMAIN listed :
                  i < j => EncodedDate(listed[i]).v >= EncodedDate(listed[j]).v
            /\ \A p \in Reorderings(keys) : SortResults(p) = {listed}

\* C10: no week is displayed exactly when the selected key is absent from
\* the store; for a key in the store the table has five rows, Monday to
\* Friday in that order.
C10_SelectWeek ==
    LET key == selectedValue(dom)
    IN  /\ (dom.resultsSection = "none") <=> ~HasKey(Stored, key)
        /\ HasKey(Stored, key) =>
              /\ Len(dom.scheduleBody) = Len(daysOrder)
              /\ \A i \in DOMAIN daysOrder :
                    dom.scheduleBody[i].dayName = daysOrder[i]

\* a week is on display, and the record it was read from
Displayed == dom.resultsSection = "block"
SelectedWeek == Lookup(Stored, selectedValue(dom))

\* "H:MM" read as H * 60 + MM minutes
MinutesOf(time) == 60 * TokenNumber(time[1]) + TokenNumber(time[3])

\* the weekdays of a `days` object whose start and end are both present
BothPresent(days) ==
    {d \in Range(daysOrder) : days[d].start # EmptyStr /\ days[d].end # EmptyStr}

\* the sum over the weekdays in `over` of end - start, in minutes
RECURSIVE SumOfDifferences(_, _)
SumOfDifferences(days, over) ==
    IF over = {} THEN 0
    ELSE LET d == CHOOSE d \in over : TRUE
         IN  MinutesOf(days[d].end) - MinutesOf(days[d].start)
             + SumOfDifferences(days, over \ {d})

\* C11: totalHours of the displayed week is the sum, over exactly the
\* weekdays whose start and end are both present, of end - start in
\* minutes; a negative difference is added as it is; Monday 9:00-17:30
\* with every other day off gives 510 minutes.
C11_TotalIsSumOfDifferences ==
    Displayed =>
        /\ dom.weekSummary =
              SumOfDifferences(SelectedWeek.days, BothPresent(SelectedWeek.days))
        /\ (/\ BothPresent(SelectedWeek.days) = {"Monday"}
            /\ SelectedWeek.days["Monday"].start = <<"9", ":", "00">>
            /\ SelectedWeek.days["Monday"].end = <<"17", ":", "30">>)
              => dom.weekSummary = 510

\* C11 witness: the displayed week has a Monday that ends before it
\* starts and a worked Tuesday, and the two cancel.
C11_Witness ==
    /\ Displayed
    /\ SelectedWeek.days["Monday"].start = <<"17", ":", "30">>
    /\ SelectedWeek.days["Monday"].end = <<"9", ":", "00">>
    /\ SelectedWeek.days["Tuesday"] = WorkDay
    /\ dom.weekSummary = 0

\* C12: in every row of the displayed week timeText is "Off" when the day
\* has neither start nor end, the start alone when it has only a start,
\* "start - end" when it has both; notesText is the area and the note that
\* are present, in that order, joined by ", ", empty when both are absent.
C12_RowTexts ==
    Displayed =>
        \A i \in DOMAIN daysOrder :
            LET day == SelectedWeek.days[daysOrder[i]]
                row == dom.scheduleBody[i]
            IN  /\ (day.start = EmptyStr /\ day.end = EmptyStr)
                      => row.timeText = <<"Off">>
                /\ (day.start # EmptyStr /\ day.end = EmptyStr)
                      => row.timeText = day.start
                /\ (day.start # EmptyStr /\ day.end # EmptyStr)
                      => row.timeText = day.start \o <<" - ">> \o day.end
                /\ (day.area = EmptyStr /\ day.note = EmptyStr)
                      => row.notesText = EmptyStr
                /\ (day.area # EmptyStr /\ day.note = EmptyStr)
                      => row.notesText = day.area
                /\ (day.area = EmptyStr /\ day.note # EmptyStr)
                      => row.notesText = day.note
                /\ (day.area # EmptyStr /\ day.note # EmptyStr)
                      => row.notesText = day.area \o <<", ">> \o day.note

\* C12 witness: the displayed Monday has no times, area Downtown and note
\* Training, and its row reads "Off" and "Downtown, Training".
C12_Witness ==
    /\ Displayed
    /\ SelectedWeek.days["Monday"].start = EmptyStr
    /\ SelectedWeek.days["Monday"].end = EmptyStr
    /\ dom.scheduleBody[1].timeText = <<"Off">>
    /\ dom.scheduleBody[1].notesText = <<"Downtown", ", ", "Training">>

\* the step just taken finished a processFile call in a branch that is not
\* the success branch
FailedIngestStep ==
    /\ pending' = pending - 1 \/ (uploads' = uploads + 1 /\ pending' = pending)
    /\ lastOutcome' \in {"notPdf", "transportError", "parseFailure"}

\* C13: a processFile call that does not succeed (the file is no PDF, the
\* request fails, the response carries success = false) makes no save and
\* leaves the persisted item as it was, and so does the part of any call
\* before its request returns; on success = false the error string the
\* response carries is the message shown.
C13_FailedIngestKeepsStore ==
    [][/\ uploads' # uploads => blob' = blob
       /\ FailedIngestStep =>
             /\ blob' = blob
             /\ lastSave' = NoSave
             /\ (lastOutcome' = "parseFailure" /\ lastError' # EmptyStr) =>
                   dom'.uploadStatus = [message |-> lastError', type |-> "error"]
      ]_vars

\* C13 witness: a response with success = false and an error string was
\* received over a store of two records, and the string is on display.
C13_Witness ==
    /\ lastOutcome = "parseFailure"
    /\ lastError # EmptyStr
    /\ dom.uploadStatus.message = lastError
    /\ Len(Stored) = 2

\* the store after inserting `record`: the entries under another key that
\* share a non-empty date with it removed, the record under its key
InsertInto(store, record) ==
    LET key == IF Truthy(record.week_ending) THEN record.week_ending
               ELSE Join(record.dates)
        evicted == {store[i].key : i \in
                       {j \in DOMAIN store :
                           /\ store[j].key # key
                           /\ SharesDate(record.dates, store[j].data.dates)}}
        kept == Without(store, evicted)
    IN  IF HasKey(kept, key)
        THEN [i \in DOMAIN kept |->
                IF kept[i].key = key THEN [key |-> key, data |-> record]
                ELSE kept[i]]
        ELSE Append(kept, [key |-> key, data |-> record])

\* C14: whatever number of processFile calls is waiting for its response,
\* the persisted item changes only in the step that finishes a call with a
\* save, and that step loads the item as the previous step left it and
\* leaves exactly the insert of its record into that store; so the final
\* store is the successful inserts applied one at a time in the order
\* their responses complete, and none is lost.
C14_IngestsSerialized ==
    [][(blob' # blob \/ (pending' = pending - 1 /\ lastOutcome' = "saved")) =>
          /\ pending' = pending - 1
          /\ lastOutcome' = "saved"
          /\ lastSave'.before = blob
          /\ getStoredData(blob').entries =
                InsertInto(getStoredData(blob).entries, lastSave'.data)
      ]_vars

\* C14 witness: a call finished with a save that evicted nothing onto a
\* store another call had saved to, while a third call is still waiting
\* for its response.
C14_Witness ==
    /\ Saved
    /\ pending > 0
    /\ Len(Before) = 1
    /\ Len(Stored) = 2

\* the dates of a stored record, none when it has no `dates`
DatesOf(record) ==
    IF "dates" \in DOMAIN record THEN record.dates ELSE << >>

\* every record of the store before the last save has another key than the
\* saved record and shares no date with it
Unrelated ==
    \A i \in DOMAIN Before :
        /\ Before[i].key # NewKey
        /\ ~SharesDate(lastSave.data.dates, DatesOf(Before[i].data))

\* what a page shows of a week: the rows and the total, nothing when the
\* results section is hidden
WeekDisplay(d) ==
    IF d.resultsSection = "block"
    THEN [shown |-> TRUE, rows |-> d.scheduleBody, total |-> d.weekSummary]
    ELSE [shown |-> FALSE, rows |-> << >>, total |-> 0]

\* the display of the last saved record's key on a page that holds
\* nothing but that record
DisplayAlone ==
    LET alone == saveTimesheetData(Blob("missing", << >>), lastSave.data, TRUE).blob
    IN  WeekDisplay(displaySelectedWeek([InitialDom EXCEPT !.options = <<NewKey>>],
                                        alone).dom)

\* C15: after a record R is saved into a store whose records all have
\* other keys and no date in common with R, the display of R's key is the
\* display R gives when saved into the empty store, so it is the same for
\* any two such stores.
C15_DisplayIgnoresUnrelated ==
    (Saved /\ Unrelated /\ selectedValue(dom) = NewKey) =>
        WeekDisplay(dom) = DisplayAlone

\* C15 witness: the key of the record just saved is selected and its week
\* displayed, beside an unrelated record with other days.
C15_Witness ==
    /\ Saved
    /\ Unrelated
    /\ selectedValue(dom) = NewKey
    /\ Displayed
    /\ \E i \in DOMAIN Before : Before[i].data.days # lastSave.data.days

\* C16: after every handler the selector offers exactly the keys of the
\* persisted store (the week section is hidden when there is none), and a
\* displayed week is the record the persisted store holds under the
\* selected key at that moment.
C16_ReadsSeePersistedStore ==
    /\ Stored = << >> =>
          /\ dom.weekSection = "none"
          /\ ~Displayed
    /\ Stored # << >> =>
          /\ dom.weekSection = "block"
          /\ Len(dom.options) = Len(Stored)
          /\ Range(dom.options) = KeysOf(Stored)
    /\ Displayed =>
          /\ HasKey(Stored, selectedValue(dom))
          /\ dom.scheduleBody = scheduleRows(SelectedWeek)
          /\ dom.weekSummary = totalHours(SelectedWeek.days, 1)

\* C16 witness: a save evicted a record and the week of the record it
\* inserted is displayed beside another key in the selector.
C16_Witness ==
    /\ Saved
    /\ Conflicting # {}
    /\ Len(dom.options) = 2
    /\ selectedValue(dom) = NewKey
    /\ Displayed

\* C17: for every content of the persisted item and every parse response
\* the saveTimesheetData of script.js (delete inside the loop) and the one
\* of part_000 (collect keysToRemove, then delete those that are not the
\* new key) end alike: the same item left behind, the same exception.
C17_VersionsAgree ==
    \A data \in ParseData : \A writeOk \in BOOLEAN :
        saveTimesheetDataOld(blob, data, writeOk)
            = saveTimesheetData(blob, data, writeOk)

\* C17 witness: a save whose record shares a date with the record it
\* replaces under its own key and with a record under another key, which
\* part_000 collects both and deletes one of; its result is the store.
C17_Witness ==
    /\ Saved
    /\ HasKey(Before, NewKey)
    /\ SharesDate(lastSave.data.dates, Lookup(Before, NewKey).dates)
    /\ Conflicting # {}
    /\ saveTimesheetDataOld(lastSave.before, lastSave.data, TRUE).blob = blob

\* C18: a save removes a stored record only if the two share a date that
\* is not an empty placeholder, a stored record without `dates` having
\* none; records under different keys that share only placeholders stay.
C18_PlaceholdersNoOverlap ==
    Saved =>
        \A i \in DOMAIN Before :
            ~HasKey(Stored, Before[i].key) =>
                SharesDate(lastSave.data.dates, DatesOf(Before[i].data))

\* C18 witness: a record with a placeholder and a date was saved beside a
\* record without `dates` and a record that shares the placeholder only,
\* and the store holds all three.
C18_Witness ==
    /\ Saved
    /\ EmptyStr \in Range(lastSave.data.dates)
    /\ Range(lastSave.data.dates) \cap DateStrings # {}
    /\ \E i \in DOMAIN Before : "dates" \notin DOMAIN Before[i].data
    /\ \E i \in DOMAIN Before :
          /\ "dates" \in DOMAIN Before[i].data
          /\ EmptyStr \in Range(Before[i].data.dates)
    /\ Len(Before) = 2
    /\ Len(Stored) = 3

\* the weekdays of a `days` object that have an end and no start
EndOnly(days) ==
    {d \in Range(daysOrder) : days[d].start = EmptyStr /\ days[d].end # EmptyStr}

\* C19: a day of the displayed week with an end and no start has the
\* timeText "Off", and the total is the sum over the other days, as if the
\* day had neither time.
C19_EndOnlyIsOff ==
    Displayed =>
        \A i \in DOMAIN daysOrder :
            daysOrder[i] \in EndOnly(SelectedWeek.days) =>
                /\ dom.scheduleBody[i].timeText = <<"Off">>
                /\ dom.weekSummary =
                      SumOfDifferences(SelectedWeek.days,
                          BothPresent(SelectedWeek.days) \ {daysOrder[i]})

\* C19 witness: the displayed week has a Monday with an end only, shown as
\* "Off", and a worked Tuesday whose 510 minutes are the total.
C19_Witness ==
    /\ Displayed
    /\ "Monday" \in EndOnly(SelectedWeek.days)
    /\ SelectedWeek.days["Tuesday"] = WorkDay
    /\ dom.scheduleBody[1].timeText = <<"Off">>
    /\ dom.weekSummary = 510

====
